---- MODULE Spec2Model ----
(***************************************************************************)
(* A model of xeputils/xep.py: the XEP record, its metadata parser         *)
(* (readXEP), the in-place text patcher (replaceElementText), the deferral *)
(* workflow (setDeferred, defer, archive, isGitClean, gitCommit) and the   *)
(* history walk (revertInterim).                                           *)
(*                                                                         *)
(* Python strings are modelled as sequences of one-character strings, so   *)
(* that int(), str.format, str.split and slicing are computed, not assumed.*)
(* The text of a file is a record of the header elements the parser reads  *)
(* plus a token sequence (body) holding the <status> elements, on which    *)
(* the regular expression of replaceElementText is run.                    *)
(***************************************************************************)
EXTENDS Integers, Sequences, FiniteSets, TLC

(***************************************************************************)
(* Bounds of the model.                                                    *)
(***************************************************************************)
MaxOps == 2
MaxCommits == 3
MaxElems == 2

(***************************************************************************)
(* Python string and integer primitives.                                   *)
(***************************************************************************)
Digits == {"0", "1", "2", "3", "4", "5", "6", "7", "8", "9"}

Letters ==
    {"a", "b", "c", "d", "e", "f", "g", "h", "i", "j", "k", "l", "m", "n", "o",
     "p", "q", "r", "s", "t", "u", "v", "w", "x", "y", "z", "A", "B", "C", "D",
     "E", "F", "G", "H", "I", "J", "K", "L", "M", "N", "O", "P", "Q", "R", "S",
     "T", "U", "V", "W", "X", "Y", "Z"}

DigitValue(c) ==
    CASE c = "0" -> 0 [] c = "1" -> 1 [] c = "2" -> 2 [] c = "3" -> 3
      [] c = "4" -> 4 [] c = "5" -> 5 [] c = "6" -> 6 [] c = "7" -> 7
      [] c = "8" -> 8 [] c = "9" -> 9

DigitChar(n) ==
    CASE n = 0 -> "0" [] n = 1 -> "1" [] n = 2 -> "2" [] n = 3 -> "3"
      [] n = 4 -> "4" [] n = 5 -> "5" [] n = 6 -> "6" [] n = 7 -> "7"
      [] n = 8 -> "8" [] n = 9 -> "9"

RECURSIVE LStrip(_)
LStrip(s) == IF s # <<>> /\ s[1] = " " THEN LStrip(Tail(s)) ELSE s

RECURSIVE RStrip(_)
RStrip(s) ==
    IF s # <<>> /\ s[Len(s)] = " " THEN RStrip(SubSeq(s, 1, Len(s) - 1)) ELSE s

Strip(s) == RStrip(LStrip(s))

IsDigits(s) == s # <<>> /\ \A i \in 1..Len(s) : s[i] \in Digits

Unsigned(s) == IF s # <<>> /\ s[1] \in {"+", "-"} THEN Tail(s) ELSE s

\* int(text) succeeds: optional blanks, an optional sign, one or more digits.
IntParses(s) == IsDigits(Unsigned(Strip(s)))

RECURSIVE DigitsValue(_)
DigitsValue(s) ==
    IF s = <<>> THEN 0
    ELSE 10 * DigitsValue(SubSeq(s, 1, Len(s) - 1)) + DigitValue(s[Len(s)])

\* The value of int(text), for a text on which int() succeeds.
IntOf(s) ==
    LET t == Strip(s)
    IN  IF t[1] = "-" THEN 0 - DigitsValue(Tail(t)) ELSE DigitsValue(Unsigned(t))

RECURSIVE NatToStr(_)
NatToStr(n) ==
    IF n < 10 THEN <<DigitChar(n)>>
    ELSE NatToStr(n \div 10) \o <<DigitChar(n % 10)>>

\* str(n) of an integer.
IntToStr(n) == IF n < 0 THEN <<"-">> \o NatToStr(0 - n) ELSE NatToStr(n)

RECURSIVE PadLeft(_, _, _)
PadLeft(s, fill, width) ==
    IF Len(s) >= width THEN s ELSE PadLeft(<<fill>> \o s, fill, width)

\* "{:0>4d}".format(n): right-aligned in a field of width 4 filled with "0".
FormatWidth == 4

Format04d(n) == PadLeft(IntToStr(n), "0", FormatWidth)

\* text.split('.')
RECURSIVE Split(_)
Split(s) ==
    IF \A i \in 1..Len(s) : s[i] # "."
    THEN <<s>>
    ELSE LET i == CHOOSE k \in 1..Len(s) :
                      s[k] = "." /\ \A j \in 1..(k - 1) : s[j] # "."
         IN  <<SubSeq(s, 1, i - 1)>> \o Split(SubSeq(s, i + 1, Len(s)))

\* fle[:-4]
SliceLen == 4

DropLast(s) == SubSeq(s, 1, Len(s) - SliceLen)

(***************************************************************************)
(* Values of attributes that hold either an int or a str.                  *)
(***************************************************************************)
IntVal(n) == [isInt |-> TRUE, i |-> n, s |-> <<>>]

StrVal(t) == [isInt |-> FALSE, i |-> 0, s |-> t]

\* An attribute that was never assigned (reading it raises AttributeError).
Unset == <<"<unset>">>

(***************************************************************************)
(* File names and file texts.                                              *)
(***************************************************************************)
TemplateName ==
    <<"x", "e", "p", "-", "t", "e", "m", "p", "l", "a", "t", "e", ".", "x", "m", "l">>

ReadmeName ==
    <<"x", "e", "p", "-", "R", "E", "A", "D", "M", "E", ".", "x", "m", "l">>

LowerX == <<"x", "x", "x", "x">>

UpperX == <<"X", "X", "X", "X">>

ReadmeText == <<"R", "E", "A", "D", "M", "E">>

\* Tokens of the body of a file text: tags and single characters.
Open(name) == [k |-> "open", v |-> name]

Close(name) == [k |-> "close", v |-> name]

Char(c) == [k |-> "char", v |-> c]

\* [a-zA-Z0-9]
IsAlnum(tok) == tok.k = "char" /\ tok.v \in (Digits \cup Letters)

\* One element with text content, as it stands in the file.
Element(name, text) ==
    <<Open(name)>> \o [i \in 1..Len(text) |-> Char(text[i])] \o <<Close(name)>>

\* The text of a date element: "YYYY-MM-DD" digits, or some other text.
DateText(y, m, d) == [wellFormed |-> TRUE, y |-> y, m |-> m, d |-> d]

NotADate == [wellFormed |-> FALSE, y |-> 0, m |-> 0, d |-> 0]

DaysIn(y, m) ==
    IF m \in {4, 6, 9, 11} THEN 30
    ELSE IF m = 2
         THEN (IF y % 4 = 0 /\ (y % 100 # 0 \/ y % 400 = 0) THEN 29 ELSE 28)
         ELSE 31

\* datetime.datetime.strptime(text, "%Y-%m-%d") succeeds
DateParses(t) ==
    /\ t.wellFormed
    /\ t.y \in 1..9999
    /\ t.m \in 1..12
    /\ t.d \in 1..DaysIn(t.y, t.m)

DateValue(t) == [y |-> t.y, m |-> t.m, d |-> t.d]

\* datetime.datetime.now(): the date of the run, left abstract.
Now == [y |-> 0, m |-> 0, d |-> 0]

(***************************************************************************)
(* __getText__ of the first element of a name, read from the body tokens.  *)
(***************************************************************************)
HasElement(body, name) == \E i \in 1..Len(body) : body[i] = Open(name)

FirstOpen(body, name) ==
    CHOOSE i \in 1..Len(body) :
        body[i] = Open(name) /\ \A j \in 1..(i - 1) : body[j] # Open(name)

RECURSIVE TextFrom(_, _)
TextFrom(body, i) ==
    IF i > Len(body) \/ body[i].k # "char" THEN <<>>
    ELSE <<body[i].v>> \o TextFrom(body, i + 1)

GetText(body, name) == TextFrom(body, FirstOpen(body, name) + 1)

(***************************************************************************)
(* The result of running code on the world the record lives in: the record *)
(* (obj), the file on disk, the output directory (fs), the calls made so   *)
(* far and the exception raised, if any.                                   *)
(***************************************************************************)
Ok(w) == [w EXCEPT !.exc = "none"]

Raise(w, e, where) == [w EXCEPT !.exc = e, !.at = where]

Then(w, F(_)) == IF w.exc = "none" THEN F(w) ELSE w

Call(w, op, idx) == [w EXCEPT !.calls = Append(@, [op |-> op, idx |-> idx])]

(***************************************************************************)
(* XEP.__str__ and XEP.__processParsingError__                             *)
(***************************************************************************)
FilenameStr(fn) == <<fn.dir, "/">> \o fn.fle

XEPStr(obj) ==
    IF obj.nrFormatted = <<>> THEN FilenameStr(obj.filename)
    ELSE <<"X", "E", "P", "-">> \o obj.nrFormatted

ProcessParsingError(w, valuedescription) ==
    IF w.obj.nrFormatted = Unset
    THEN Raise(w, "AttributeError", "readXEP")
    ELSE [w EXCEPT !.obj.parseErrors =
              Append(@, <<valuedescription, XEPStr(w.obj)>>)]

(***************************************************************************)
(* XEP.readXEP, one definition per field, in the order of the code.        *)
(***************************************************************************)
ReadNumber(w) ==
    LET nr == w.obj.raw.number
        fle == w.obj.filename.fle
    IN  IF w.obj.filename.dir = "inbox" \/ fle = TemplateName
        THEN [w EXCEPT
                !.obj.parseErrors =
                    IF ~(nr = LowerX \/ nr = UpperX)
                    THEN Append(@, <<"XEP-number of protoXEP",
                                     FilenameStr(w.obj.filename)>>)
                    ELSE @,
                !.obj.nr = StrVal(DropLast(fle))]
        ELSE IF nr = LowerX \/ nr = UpperX
        THEN [w EXCEPT !.obj.nr = StrVal(DropLast(fle))]
        ELSE IF fle = ReadmeName /\ nr = ReadmeText
        THEN [w EXCEPT !.obj.nr = StrVal(nr)]
        ELSE IF IntParses(nr)
        THEN [w EXCEPT !.obj.nr = IntVal(IntOf(nr))]
        ELSE ProcessParsingError([w EXCEPT !.obj.nr = StrVal(nr)], "XEP number")

\* nrFormatted computed on the first parse only.
FormatNumber_Once(w) ==
    IF w.obj.nrFormatted # Unset THEN w
    ELSE [w EXCEPT !.obj.nrFormatted =
              IF w.obj.nr.isInt THEN Format04d(w.obj.nr.i) ELSE w.obj.nr.s]

FormatNumber(w) ==
    [w EXCEPT !.obj.nrFormatted =
         IF w.obj.nr.isInt THEN Format04d(w.obj.nr.i) ELSE w.obj.nr.s]

ReadStatus(w) == [w EXCEPT !.obj.status = GetText(w.obj.raw.body, "status")]

NoDate == [isDate |-> FALSE, d |-> Now]

ReadLastcall(w) ==
    IF w.obj.raw.lastcall # <<>>
    THEN IF DateParses(w.obj.raw.lastcall[1])
         THEN [w EXCEPT !.obj.lastcall =
                   [isDate |-> TRUE, d |-> DateValue(w.obj.raw.lastcall[1])]]
         ELSE ProcessParsingError([w EXCEPT !.obj.lastcall = NoDate], "last call")
    ELSE [w EXCEPT !.obj.lastcall = NoDate]

ReadInterim(w) == [w EXCEPT !.obj.interim = w.obj.raw.interim]

ReadDate(w) ==
    IF DateParses(w.obj.raw.date)
    THEN [w EXCEPT !.obj.date = DateValue(w.obj.raw.date)]
    ELSE ProcessParsingError([w EXCEPT !.obj.date = Now], "date")

ReadVersion(w) == [w EXCEPT !.obj.version = w.obj.raw.version]

ReadMajorVersion(w) ==
    LET c == Split(w.obj.version)[1]
    IN  IF IntParses(c)
        THEN [w EXCEPT !.obj.majorVersion = IntOf(c)]
        ELSE ProcessParsingError([w EXCEPT !.obj.majorVersion = 0], "major version")

ReadMinorVersion(w) ==
    LET parts == Split(w.obj.version)
    IN  IF Len(parts) < 2
        THEN Raise(w, "IndexError", "readXEP")
        ELSE IF IntParses(parts[2])
        THEN [w EXCEPT !.obj.minorVersion = IntVal(IntOf(parts[2]))]
        ELSE IF w.obj.interim
        THEN [w EXCEPT !.obj.minorVersion = StrVal(parts[2])]
        ELSE ProcessParsingError(
                 [w EXCEPT !.obj.minorVersion = IntVal(0)], "major version")

\* A parse that starts from an empty list of parse errors.
ReadXEP_ClearsErrors(w) ==
    LET w0 == [w EXCEPT !.obj.parseErrors = <<>>]
        w1 == Then(Then(w0, ReadNumber), FormatNumber)
        w2 == Then(Then(w1, ReadStatus), ReadLastcall)
        w3 == Then(Then(w2, ReadInterim), ReadDate)
        w4 == Then(Then(w3, ReadVersion), ReadMajorVersion)
    IN  Then(w4, ReadMinorVersion)

ReadXEP(w) ==
    LET w1 == Then(Then(w, ReadNumber), FormatNumber)
        w2 == Then(Then(w1, ReadStatus), ReadLastcall)
        w3 == Then(Then(w2, ReadInterim), ReadDate)
        w4 == Then(Then(w3, ReadVersion), ReadMajorVersion)
    IN  Then(w4, ReadMinorVersion)

(***************************************************************************)
(* XEP.replaceElementText: re.sub of "<name>[a-zA-Z0-9]*</name>" by        *)
(* "<name>text</name>", count=1, on the text of the file.                  *)
(***************************************************************************)
RECURSIVE RunEnd(_, _)
\* The first position at or after i that holds no alphanumeric character.
RunEnd(body, i) ==
    IF i <= Len(body) /\ IsAlnum(body[i]) THEN RunEnd(body, i + 1) ELSE i

\* The pattern matches at position i.
MatchAt(body, i, name) ==
    /\ body[i] = Open(name)
    /\ RunEnd(body, i + 1) <= Len(body)
    /\ body[RunEnd(body, i + 1)] = Close(name)

\* A structural edit: the first element of the name, whatever it holds.
ReSub_FirstElement(body, name, text) ==
    IF \E i \in 1..Len(body) : body[i] = Open(name)
    THEN LET i == CHOOSE k \in 1..Len(body) :
                      body[k] = Open(name) /\ \A j \in 1..(k - 1) : body[j] # Open(name)
             e == CHOOSE k \in (i + 1)..Len(body) :
                      body[k] = Close(name)
                          /\ \A j \in (i + 1)..(k - 1) : body[j] # Close(name)
         IN  SubSeq(body, 1, i - 1) \o Element(name, text)
                 \o SubSeq(body, e + 1, Len(body))
    ELSE body

ReSub(body, name, text) ==
    IF \E i \in 1..Len(body) : MatchAt(body, i, name)
    THEN LET i == CHOOSE k \in 1..Len(body) :
                      /\ MatchAt(body, k, name)
                      /\ \A j \in 1..(k - 1) : ~MatchAt(body, j, name)
         IN  SubSeq(body, 1, i - 1) \o Element(name, text)
                 \o SubSeq(body, RunEnd(body, i + 1) + 1, Len(body))
    ELSE body

ReplaceElementText(w, elementname, text) ==
    [w EXCEPT !.disk.body = ReSub(@, elementname, text)]

(***************************************************************************)
(* XEP.setDeferred, XEP.archive, XEP.isGitClean, XEP.gitCommit, XEP.defer  *)
(***************************************************************************)
Deferred == <<"D", "e", "f", "e", "r", "r", "e", "d">>

\* The file patched and the text already held parsed again, the file not read.
SetDeferred_NoReread(w) ==
    LET w1 == ReplaceElementText(Call(w, "setDeferred", 0), "status", Deferred)
    IN  ReadXEP(w1)

SetDeferred(w) ==
    LET w1 == ReplaceElementText(Call(w, "setDeferred", 0), "status", Deferred)
    IN  ReadXEP([w1 EXCEPT !.obj.raw = w1.disk])

\* The copy made without looking for the attic directory.
Archive_NoAtticCheck(w) ==
    LET w1 == Call(w, "archive", 0)
    IN  IF w1.obj.outpath # "" /\ w1.obj.nrFormatted \in w1.fs.html
        THEN [w1 EXCEPT !.fs.atticFiles =
                  @ \cup {<<w1.obj.nrFormatted, w1.obj.version>>}]
        ELSE w1

Archive(w) ==
    LET w1 == Call(w, "archive", 0)
    IN  IF /\ w1.obj.outpath # ""
           /\ w1.fs.attic
           /\ w1.obj.nrFormatted \in w1.fs.html
        THEN [w1 EXCEPT !.fs.atticFiles =
                  @ \cup {<<w1.obj.nrFormatted, w1.obj.version>>}]
        ELSE w1

\* os.path.relpath(self.filename, None) raises before git is run.
IsGitClean(w, gitStatus) ==
    LET w1 == Call(w, "isGitClean", 0)
    IN  IF w1.obj.gittoplevel = ""
        THEN Raise(w1, "AttributeError", "isGitClean")
        ELSE IF gitStatus = "error"
        THEN [w1 EXCEPT !.obj.buildErrors =
                  Append(@, <<"error reading git status", XEPStr(w1.obj)>>),
                        !.ret = FALSE]
        ELSE [w1 EXCEPT !.ret = (gitStatus = "clean")]

GitCommit(w, commitError) ==
    LET w1 == Call(w, "gitCommit", 0)
    IN  IF w1.obj.gittoplevel = ""
        THEN Raise(w1, "AttributeError", "gitCommit")
        ELSE IF commitError
        THEN [w1 EXCEPT !.obj.buildErrors =
                  Append(@, <<"error while committing", XEPStr(w1.obj)>>)]
        ELSE w1

\* xeputils.builder.buildXHTML: writes xep-<nrFormatted>.html under outpath.
BuildXHTML(w, renderOk) ==
    LET w1 == Call(w, "buildXHTML", 0)
    IN  IF w1.obj.outpath # "" /\ renderOk
        THEN [w1 EXCEPT !.fs.html = @ \cup {w1.obj.nrFormatted}]
        ELSE w1

\* xeputils.builder.buildPDF: writes a PDF file, which nothing here reads.
BuildPDF(w) == Call(w, "buildPDF", 0)

\* The first lines of defer: decides commitToGit (ret).
DeferPreCheck(w, gitStatus) ==
    IF w.obj.gittoplevel = ""
    THEN [w EXCEPT !.obj.buildErrors =
              Append(@, <<"not in a git repository, will not commit",
                          XEPStr(w.obj)>>),
                   !.ret = FALSE]
    ELSE LET c == IsGitClean(w, gitStatus)
         IN  IF c.ret THEN c
             ELSE [c EXCEPT !.obj.buildErrors =
                       Append(@, <<"has uncommitted changes, will not commit",
                                   XEPStr(c.obj)>>)]

\* The commit made whenever there is a repository, clean or not.
Defer_CommitUnchecked(w, in) ==
    LET xhtml(x) == BuildXHTML(x, in.renderOk)
        commit(x) == IF x.obj.gittoplevel # ""
                     THEN GitCommit(x, in.commitError) ELSE x
        w1 == DeferPreCheck(w, in.gitStatus)
        w2 == Then(Then(w1, SetDeferred), xhtml)
        w3 == Then(Then(w2, BuildPDF), Archive)
    IN  Then(w3, commit)

Defer(w, in) ==
    LET xhtml(x) == BuildXHTML(x, in.renderOk)
        commit(x) == IF x.ret THEN GitCommit(x, in.commitError) ELSE x
        w1 == DeferPreCheck(w, in.gitStatus)
        w2 == Then(Then(w1, SetDeferred), xhtml)
        w3 == Then(Then(w2, BuildPDF), Archive)
    IN  Then(w3, commit)

(***************************************************************************)
(* XEP.revertInterim                                                       *)
(***************************************************************************)
\* len(out.split('\n')): an empty output still splits into one string.
NCommits(log) == IF Len(log) = 0 THEN 1 ELSE Len(log)

RECURSIVE Walk(_, _, _)
\* The while loop, entered with commitIndex (a Python, 0-based index).
Walk(w, in, commitIndex) ==
    IF ~w.obj.interim THEN w
    ELSE IF commitIndex >= NCommits(in.log)
    THEN Raise(w, "IndexError", "revertInterim")
    ELSE LET w1 == Call(w, "git show", commitIndex)
         IN  IF in.blobError = commitIndex
             THEN [w1 EXCEPT !.obj.buildErrors =
                       Append(@, <<"error reading git blob", XEPStr(w1.obj)>>)]
             ELSE LET w2 == ReadXEP(Call([w1 EXCEPT !.obj.raw =
                                               in.log[commitIndex + 1]],
                                         "readXEP", commitIndex))
                  IN  IF w2.exc # "none" THEN w2
                      ELSE Walk(w2, in, commitIndex + 1)

FirstCommitIndex == 1

RevertInterim(w, in) ==
    IF ~w.obj.interim THEN w
    ELSE IF w.obj.gittoplevel = ""
    THEN [w EXCEPT !.obj.buildErrors =
              Append(@, <<"not in a git repository, will be using interim XEPs",
                          <<"{", "0", "}">> >>)]
    ELSE LET w1 == Call(w, "git log", 0)
         IN  IF in.logError
             THEN [w1 EXCEPT !.obj.buildErrors =
                       Append(@, <<"error reading git log", XEPStr(w1.obj)>>)]
             ELSE Walk(w1, in, FirstCommitIndex)

(***************************************************************************)
(* The inputs the model draws from.                                        *)
(***************************************************************************)
Doc(number, version, interim, lastcall, date, body) ==
    [number |-> number, version |-> version, interim |-> interim,
     lastcall |-> lastcall, date |-> date, body |-> body]

GoodDate == DateText(2014, 9, 23)

BadDate == DateText(2014, 2, 30)

Draft == <<"D", "r", "a", "f", "t">>

LastCall == <<"L", "a", "s", "t", " ", "C", "a", "l", "l">>

DraftBody == Element("status", Draft)

NumberTexts ==
    {LowerX, UpperX, ReadmeText, <<"4", "2">>, <<"1", "2", "3", "4", "5">>,
     <<"a", "b", "c">>, <<>>, <<"-", "5">>}

VersionTexts ==
    {<<"1", ".", "2">>, <<"1">>, <<"1", ".", "2", "r", "c", "1">>,
     <<"x", ".", "1">>, <<"1", ".", "2", ".", "3">>}

AllDocs ==
    {Doc(n, v, i, l, d, DraftBody) :
        n \in NumberTexts, v \in VersionTexts, i \in BOOLEAN,
        l \in {<<>>, <<GoodDate>>, <<NotADate>>}, d \in {GoodDate, BadDate}}

XepFile == [dir |-> "xeps", fle |-> <<"x", "e", "p", "-", "0", "0", "4", "2", ".", "x", "m", "l">>]

InboxFile == [dir |-> "inbox", fle |-> <<"n", "e", "w", ".", "x", "m", "l">>]

InboxXhtmlFile ==
    [dir |-> "inbox", fle |-> <<"n", "e", "w", ".", "x", "h", "t", "m", "l">>]

TemplateFile == [dir |-> "xeps", fle |-> TemplateName]

ReadmeFile == [dir |-> "xeps", fle |-> ReadmeName]

ParseFilenames == {XepFile, InboxFile, InboxXhtmlFile, TemplateFile, ReadmeFile}

\* The revisions a history walk of the parser specification reads.
ParseBlobs ==
    {Doc(n, v, i, <<>>, GoodDate, DraftBody) :
        n \in {<<"4", "2">>, <<"a", "b", "c">>},
        v \in {<<"1", ".", "1">>, <<"1">>, <<"1", ".", "1", "r", "c", "1">>},
        i \in BOOLEAN}

\* The files and revisions of the workflow specification.
WorkDocs ==
    {Doc(<<"4", "2">>, <<"1", ".", "2">>, i, <<>>, GoodDate, DraftBody) :
        i \in BOOLEAN}

WorkBlobs ==
    {Doc(<<"4", "2">>, <<"1", ".", "1">>, TRUE, <<>>, GoodDate, DraftBody),
     Doc(<<"4", "2">>, <<"1", ".", "1">>, FALSE, <<>>, GoodDate, DraftBody),
     Doc(<<"4", "2">>, <<"1">>, TRUE, <<>>, GoodDate, DraftBody)}

Head0 == Doc(<<"4", "2">>, <<"1", ".", "2">>, TRUE, <<>>, GoodDate, DraftBody)

RECURSIVE SeqsUpTo(_, _)
\* The sequences over S of length at most n.
SeqsUpTo(S, n) ==
    IF n = 0 THEN {<<>>}
    ELSE LET shorter == SeqsUpTo(S, n - 1)
         IN  shorter \cup {Append(q, x) : q \in shorter, x \in S}

\* What git log and git show answer: commit 0 is the newest.
Logs ==
    {<<>>} \cup {<<Head0>> \o t : t \in SeqsUpTo(WorkBlobs, MaxCommits - 1)}

\* The files and revisions of the diagnostics specification: some hold a
\* revision date that is no date.
DiagDocs ==
    {Doc(<<"4", "2">>, <<"1", ".", "2">>, i, <<>>, d, DraftBody) :
        i \in BOOLEAN, d \in {GoodDate, BadDate}}

DiagBlobs ==
    {Doc(<<"4", "2">>, <<"1", ".", "1">>, TRUE, <<>>, BadDate, DraftBody),
     Doc(<<"4", "2">>, <<"1", ".", "1">>, FALSE, <<>>, BadDate, DraftBody),
     Doc(<<"4", "2">>, <<"1", ".", "1">>, FALSE, <<>>, GoodDate, DraftBody)}

DiagLogs ==
    {<<>>} \cup {<<Head0>> \o t : t \in SeqsUpTo(DiagBlobs, MaxCommits - 1)}

NoInput ==
    [gitStatus |-> "clean", commitError |-> FALSE, renderOk |-> TRUE,
     log |-> <<>>, logError |-> FALSE, blobError |-> 0,
     elementname |-> "", text |-> <<>>]

\* git log fails, or it answers a log and git show fails at one index or
\* at none (0, which the walk never reads).
WalkInputs(logs) ==
    {[NoInput EXCEPT !.logError = TRUE]}
        \cup {in \in {[NoInput EXCEPT !.log = l, !.blobError = b] :
                            l \in logs, b \in 0..(MaxCommits - 1)} :
                 in.blobError < NCommits(in.log)}

\* git status answers clean, dirty or fails; git commit is run only after
\* a clean answer.
DeferInputs ==
    {in \in {[NoInput EXCEPT !.gitStatus = g, !.commitError = c, !.renderOk = r] :
                g \in {"clean", "dirty", "error"}, c \in BOOLEAN, r \in BOOLEAN} :
        in.commitError => in.gitStatus = "clean"}

\* The bodies of the patcher specification: up to MaxElems elements.
PatchContents == {<<>>, Draft, LastCall}

PatchElements ==
    {Element(n, t) : n \in {"status", "type"}, t \in PatchContents}

RECURSIVE Concat(_)
Concat(q) == IF q = <<>> THEN <<>> ELSE Head(q) \o Concat(Tail(q))

PatchBodies ==
    {Concat(q) : q \in SeqsUpTo(PatchElements, MaxElems)}

PatchDocs ==
    {Doc(<<"4", "2">>, <<"1", ".", "2">>, FALSE, <<>>, GoodDate, b) :
        b \in {x \in PatchBodies : HasElement(x, "status")}}

PatchInputs ==
    {[NoInput EXCEPT !.elementname = n, !.text = t] :
        n \in {"status", "type"}, t \in {Deferred, <<>>}}

(***************************************************************************)
(* The state.                                                              *)
(***************************************************************************)
VARIABLES
    self,     \* the XEP record: its attributes
    disk,     \* the text of the file self.filename
    fs,       \* the output directory: attic, the HTML files, the attic files
    pc,       \* "new" before XEP(...), "live" after it, "failed" if it raised,
              \* "raised" once a later operation raised: the run ends there
    exc,      \* what the last operation raised, and where
    lastOp,   \* the last operation called
    calls,    \* the methods and git commands the last operation ran, in order
    input,    \* what the last operation was given and what git answered
    ops       \* the number of operations called so far

vars == <<self, disk, fs, pc, exc, lastOp, calls, input, ops>>

NoDoc == Doc(<<>>, <<>>, FALSE, <<>>, NotADate, <<>>)

\* The attributes as XEP.__init__ leaves them before it calls readXEP.
NewXEP(filename, gittoplevel, outpath) ==
    [filename |-> filename, gittoplevel |-> gittoplevel, outpath |-> outpath,
     raw |-> NoDoc, buildErrors |-> <<>>, parseErrors |-> <<>>,
     nr |-> StrVal(Unset), nrFormatted |-> Unset, status |-> Unset,
     lastcall |-> NoDate, interim |-> FALSE, date |-> Now, version |-> Unset,
     majorVersion |-> 0, minorVersion |-> StrVal(Unset)]

NoFiles == [attic |-> FALSE, html |-> {}, atticFiles |-> {}]

InitWith(filenames, docs, tops, outs) ==
    /\ \E f \in filenames, g \in tops, o \in outs : self = NewXEP(f, g, o)
    /\ disk \in docs
    /\ \/ fs = NoFiles
       \/ /\ self.outpath # ""
          /\ \E a \in BOOLEAN, h \in SUBSET {<<"0", "0", "4", "2">>} :
                 fs = [attic |-> a, html |-> h, atticFiles |-> {}]
    /\ pc = "new"
    /\ exc = [type |-> "none", at |-> ""]
    /\ lastOp = ""
    /\ calls = <<>>
    /\ input = NoInput
    /\ ops = 0

World ==
    [obj |-> self, disk |-> disk, fs |-> fs, exc |-> "none", at |-> "",
     calls |-> <<>>, ret |-> FALSE]

\* The state after an operation that ended in world w.
Becomes(op, in, w) ==
    /\ self' = w.obj
    /\ disk' = w.disk
    /\ fs' = w.fs
    /\ exc' = [type |-> w.exc, at |-> IF w.exc = "none" THEN "" ELSE w.at]
    /\ lastOp' = op
    /\ calls' = w.calls
    /\ input' = in
    /\ ops' = ops + 1
    /\ pc' = IF w.exc = "none" THEN "live"
             ELSE IF op = "__init__" THEN "failed" ELSE "raised"

Live == pc = "live" /\ ops <= MaxOps

\* git is asked only by an interim record that has a repository: any other
\* record is given no answer.
Consulted(in) == (self.interim /\ self.gittoplevel # "") \/ in = NoInput

(***************************************************************************)
(* The operations.                                                         *)
(***************************************************************************)
\* XEP(filename, outpath): reads the file and parses it.
Construct(w) == ReadXEP([w EXCEPT !.obj.raw = w.disk])

XEP__init__ ==
    /\ pc = "new"
    /\ Becomes("__init__", NoInput, Construct(World))

setDeferred ==
    /\ Live
    /\ Becomes("setDeferred", NoInput, SetDeferred(World))

defer ==
    /\ Live
    /\ \E in \in DeferInputs :
           /\ self.gittoplevel = "" => in.gitStatus = "clean" /\ ~in.commitError
           /\ self.outpath = "" => in.renderOk
           /\ Becomes("defer", in, Defer(World, in))

archive ==
    /\ Live
    /\ Becomes("archive", NoInput, Archive(World))

isGitClean ==
    /\ Live
    /\ \E g \in {"clean", "dirty", "error"} :
           Becomes("isGitClean", [NoInput EXCEPT !.gitStatus = g],
                   IsGitClean(World, g))

gitCommit ==
    /\ Live
    /\ \E c \in BOOLEAN :
           Becomes("gitCommit", [NoInput EXCEPT !.commitError = c],
                   GitCommit(World, c))

revertInterim ==
    /\ Live
    /\ \E in \in WalkInputs(Logs) :
           /\ Consulted(in)
           /\ Becomes("revertInterim", in, RevertInterim(World, in))

\* revertInterim on a history of two commits, the older one any revision.
revertInterimOnce ==
    /\ Live
    /\ \E in \in WalkInputs({<<Head0, b>> : b \in ParseBlobs}) \cup {NoInput} :
           /\ Consulted(in)
           /\ ~in.logError
           /\ in.blobError = 0
           /\ Becomes("revertInterim", in, RevertInterim(World, in))

\* revertInterim on the histories of the diagnostics specification.
revertInterimDiag ==
    /\ Live
    /\ \E in \in WalkInputs(DiagLogs) :
           /\ Consulted(in)
           /\ Becomes("revertInterim", in, RevertInterim(World, in))

replaceElementText ==
    /\ Live
    /\ \E in \in PatchInputs :
           Becomes("replaceElementText", in,
                   ReplaceElementText(World, in.elementname, in.text))

(***************************************************************************)
(* The specifications: the workflow, the parser on every document, and the *)
(* patcher on every body.                                                  *)
(***************************************************************************)
Init == InitWith({XepFile}, WorkDocs, {"", "/repo"}, {"", "/out"})

Next ==
    \/ XEP__init__
    \/ setDeferred
    \/ defer
    \/ archive
    \/ isGitClean
    \/ gitCommit
    \/ revertInterim

Spec == Init /\ [][Next]_vars

InitParse == InitWith(ParseFilenames, AllDocs, {"/repo"}, {""})

NextParse ==
    \/ XEP__init__
    \/ setDeferred
    \/ revertInterimOnce

SpecParse == InitParse /\ [][NextParse]_vars

InitPatch == InitWith({XepFile}, PatchDocs, {"/repo"}, {""})

NextPatch ==
    \/ XEP__init__
    \/ replaceElementText
    \/ setDeferred

SpecPatch == InitPatch /\ [][NextPatch]_vars

\* The workflow on files and revisions that leave parse errors.
InitDiag == InitWith({XepFile}, DiagDocs, {"", "/repo"}, {""})

NextDiag ==
    \/ XEP__init__
    \/ setDeferred
    \/ defer
    \/ archive
    \/ isGitClean
    \/ gitCommit
    \/ revertInterimDiag

SpecDiag == InitDiag /\ [][NextDiag]_vars

(***************************************************************************)
(* What the specification expects of a parse, stated from its rules.       *)
(***************************************************************************)
ParseOps == {"__init__", "setDeferred", "revertInterim"}

InboxOrTemplate(fn) == fn.dir = "inbox" \/ fn.fle = TemplateName

IsPlaceholder(number) == number = LowerX \/ number = UpperX

\* The filename minus its extension (os.path.splitext).
Stem(fle) ==
    LET dots == {i \in 2..Len(fle) : fle[i] = "."}
    IN  IF dots = {} THEN fle
        ELSE SubSeq(fle, 1, (CHOOSE i \in dots : \A j \in dots : j <= i) - 1)

\* The number element is to be read as an integer, and is none.
NumberUnparseable(fn, doc) ==
    /\ ~InboxOrTemplate(fn)
    /\ ~IsPlaceholder(doc.number)
    /\ ~(fn.fle = ReadmeName /\ doc.number = ReadmeText)
    /\ ~IntParses(doc.number)

NumberFails(fn, doc) ==
    \/ InboxOrTemplate(fn) /\ ~IsPlaceholder(doc.number)
    \/ NumberUnparseable(fn, doc)

Component(version, k) ==
    IF Len(Split(version)) >= k THEN Split(version)[k] ELSE <<>>

MajorFails(doc) == ~IntParses(Component(doc.version, 1))

MinorFails(doc) == ~IntParses(Component(doc.version, 2)) /\ ~doc.interim

Count(b) == IF b THEN 1 ELSE 0

\* The number of fields of a document whose value does not parse.
FailingFields(fn, doc) ==
    Count(NumberFails(fn, doc))
        + Count(doc.lastcall # <<>> /\ ~DateParses(doc.lastcall[1]))
        + Count(~DateParses(doc.date))
        + Count(MajorFails(doc))
        + Count(MinorFails(doc))

\* An integer n left-padded with zeros to at least 4 characters.
ZeroPadded(n) ==
    LET t == IntToStr(n)
        width == IF Len(t) < 4 THEN 4 ELSE Len(t)
    IN  [i \in 1..width |->
            IF i <= width - Len(t) THEN "0" ELSE t[i - (width - Len(t))]]

(***************************************************************************)
(* C1. readXEP never raises: after the first parse, and after every later  *)
(* re-parse, nothing was raised by the parser, and the first parse of a    *)
(* file leaves exactly one entry in parseErrors for each field of it that  *)
(* does not parse.                                                         *)
(***************************************************************************)
C1_ParseNeverRaises ==
    /\ lastOp \in ParseOps => exc.at # "readXEP"
    /\ lastOp = "__init__" =>
           Len(self.parseErrors) = FailingFields(self.filename, disk)

(***************************************************************************)
(* C2. A number element that is to be read as an integer and is none       *)
(* records one error and leaves number and numberFormatted equal to the    *)
(* literal text, also on the first parse of a new record.                  *)
(***************************************************************************)
C2_LiteralNumberKept ==
    (lastOp = "__init__" /\ NumberUnparseable(self.filename, disk)) =>
        /\ pc = "live"
        /\ self.nr = StrVal(disk.number)
        /\ self.nrFormatted = disk.number
        /\ Len(self.parseErrors) >= 1
        /\ self.parseErrors[1][1] = "XEP number"

(***************************************************************************)
(* C3. For a file in an inbox directory, or the template file, number is   *)
(* the filename stem after a parse; parseErrors is non-empty if the number *)
(* element is not xxxx/XXXX, and holds no entry for the number if it is.   *)
(***************************************************************************)
C3_InboxNumberIsStem ==
    (lastOp = "__init__" /\ pc = "live" /\ InboxOrTemplate(self.filename)) =>
        /\ self.nr = StrVal(Stem(self.filename.fle))
        /\ ~IsPlaceholder(disk.number) => self.parseErrors # <<>>
        /\ IsPlaceholder(disk.number) =>
               \A i \in 1..Len(self.parseErrors) :
                   self.parseErrors[i][1] \notin
                       {"XEP number", "XEP-number of protoXEP"}

(***************************************************************************)
(* C4. Whenever a record exists, numberFormatted is derived from the       *)
(* current number: the integer left-padded with zeros to at least 4        *)
(* characters, or the number itself when it is a string. No parse or       *)
(* re-parse leaves a value of an earlier parse.                            *)
(***************************************************************************)
C4_NumberFormattedDerived ==
    pc \in {"live", "raised"} =>
        self.nrFormatted =
            IF self.nr.isInt THEN ZeroPadded(self.nr.i) ELSE self.nr.s

\* A re-parse that changed the number from an integer to a literal string.
C4_Witness ==
    /\ lastOp = "revertInterim"
    /\ pc = "live"
    /\ \E i \in 1..Len(calls) : calls[i].op = "readXEP"
    /\ disk.number = <<"4", "2">>
    /\ self.nr = StrVal(<<"a", "b", "c">>)
    /\ self.nrFormatted = <<"a", "b", "c">>

(***************************************************************************)
(* C5. For every version string, once the parser has read it, the major    *)
(* version is the integer of component 0 (or 0), the minor version is the  *)
(* integer of component 1, or the raw component for an interim document,   *)
(* or 0, and nothing is raised.                                            *)
(***************************************************************************)
C5_VersionParsed ==
    (lastOp = "__init__" /\ self.version # Unset) =>
        /\ exc.type = "none"
        /\ self.majorVersion =
               IF MajorFails(disk) THEN 0 ELSE IntOf(Component(disk.version, 1))
        /\ self.minorVersion =
               IF IntParses(Component(disk.version, 2))
               THEN IntVal(IntOf(Component(disk.version, 2)))
               ELSE IF disk.interim THEN StrVal(Component(disk.version, 2))
               ELSE IntVal(0)
        /\ Len(self.parseErrors) = FailingFields(self.filename, disk)

(***************************************************************************)
(* The elements of a body, read back from its tokens.                      *)
(***************************************************************************)
RECURSIVE ElementsOf(_)
ElementsOf(body) ==
    IF body = <<>> THEN <<>>
    ELSE LET j == CHOOSE k \in 2..Len(body) :
                      /\ body[k].k = "close"
                      /\ \A m \in 2..(k - 1) : body[m].k = "char"
         IN  <<[name |-> body[1].v,
                text |-> [m \in 1..(j - 2) |-> body[m + 1].v]]>>
                 \o ElementsOf(SubSeq(body, j + 1, Len(body)))

Serialise(es) == Concat([i \in 1..Len(es) |-> Element(es[i].name, es[i].text)])

Occurrences(es, name) == {i \in 1..Len(es) : es[i].name = name}

AlnumOccurrences(es, name) ==
    {i \in Occurrences(es, name) :
        \A m \in 1..Len(es[i].text) : es[i].text[m] \in (Digits \cup Letters)}

Least(S) == CHOOSE i \in S : \A j \in S : i <= j

\* The element name and the text a step hands to replaceElementText.
PatchName(op, in) == IF op = "setDeferred" THEN "status" ELSE in.elementname

PatchText(op, in) == IF op = "setDeferred" THEN Deferred ELSE in.text

PatchOps == {"replaceElementText", "setDeferred"}

NonInterimAt(log) == {k \in 1..(Len(log) - 1) : ~log[k + 1].interim}

IsReadXEP(c) == c.op = "readXEP"

\* The indices of the revisions an operation re-parsed, in order.
Reparsed(cs) ==
    LET r == SelectSeq(cs, IsReadXEP) IN [i \in 1..Len(r) |-> r[i].idx]

\* git log and every git show up to index k answered.
ReadsSucceed(in, k) == ~in.logError /\ (in.blobError = 0 \/ in.blobError > k)

\* A git read of the walk failed.
ReadFailed(cs, in) ==
    \/ in.logError
    \/ \E i \in 1..Len(cs) : cs[i].op = "git show" /\ cs[i].idx = in.blobError

(***************************************************************************)
(* C7. For an interim record under version control and a log of two or     *)
(* more commits with a non-interim revision at some index >= 1,            *)
(* revertInterim re-parses the revisions 1, 2, ..., k in order, where k is *)
(* the smallest index of a non-interim revision, and leaves isInterim      *)
(* false and rawText equal to revision k. Called on a record that is not   *)
(* interim, it reads nothing and changes nothing.                          *)
(***************************************************************************)
C7_WalkStopsAtFirstNonInterim ==
    [][lastOp' = "revertInterim" =>
          /\ ( /\ self.interim
               /\ self.gittoplevel # ""
               /\ Len(input'.log) >= 2
               /\ NonInterimAt(input'.log) # {}
               /\ ReadsSucceed(input', Least(NonInterimAt(input'.log))) )
                 => LET k == Least(NonInterimAt(input'.log))
                    IN  /\ Reparsed(calls') = [i \in 1..k |-> i]
                        /\ ~self'.interim
                        /\ self'.raw = input'.log[k + 1]
          /\ ~self.interim =>
                 self' = self /\ calls' = <<>> /\ disk' = disk /\ fs' = fs]_vars

(***************************************************************************)
(* C8. revertInterim never raises, whatever the log (one commit, none, all *)
(* revisions interim) and whatever the git reads answer; when a read fails *)
(* one warning is appended to buildErrors.                                 *)
(***************************************************************************)
C8_WalkNeverRaises ==
    [][lastOp' = "revertInterim" =>
          /\ exc'.type = "none"
          /\ ReadFailed(calls', input') =>
                 Len(self'.buildErrors) = Len(self.buildErrors) + 1]_vars

(***************************************************************************)
(* C9. defer runs setDeferred, buildXHTML, buildPDF and archive once each, *)
(* in that order, in every case; gitCommit runs after archive exactly when *)
(* the record has a repository and git status, asked before setDeferred,   *)
(* answered clean. Otherwise a warning is appended to buildErrors and      *)
(* nothing is committed.                                                   *)
(***************************************************************************)
DeferSteps(gittoplevel, gitStatus) ==
    (IF gittoplevel # "" THEN <<"isGitClean">> ELSE <<>>)
        \o <<"setDeferred", "buildXHTML", "buildPDF", "archive">>
        \o (IF gittoplevel # "" /\ gitStatus = "clean"
            THEN <<"gitCommit">> ELSE <<>>)

C9_DeferSteps ==
    [][lastOp' = "defer" =>
          /\ exc'.type = "none"
          /\ [i \in 1..Len(calls') |-> calls'[i].op]
                 = DeferSteps(self.gittoplevel, input'.gitStatus)
          /\ (self.gittoplevel = "" \/ input'.gitStatus # "clean") =>
                 /\ Len(self'.buildErrors) > Len(self.buildErrors)
                 /\ SubSeq(self'.buildErrors, 1, Len(self.buildErrors))
                        = self.buildErrors]_vars

\* defer on a clean file of a repository: six steps, the last the commit.
C9_Witness ==
    /\ lastOp = "defer"
    /\ input.gitStatus = "clean"
    /\ Len(calls) = 6
    /\ calls[1].op = "isGitClean"
    /\ calls[6].op = "gitCommit"
    /\ self.status = Deferred

(***************************************************************************)
(* C10. archive copies xep-<numberFormatted>.html to                       *)
(* attic/xep-<numberFormatted>-<versionString>.html when an output path is *)
(* configured, its attic directory exists and the HTML file exists; in     *)
(* every other case it writes no file, raises nothing and appends nothing  *)
(* to buildErrors or parseErrors. It changes nothing else.                 *)
(***************************************************************************)
C10_ArchiveFrame ==
    [][lastOp' = "archive" =>
          /\ exc'.type = "none"
          /\ self' = self
          /\ disk' = disk
          /\ fs' = [fs EXCEPT !.atticFiles =
                        IF /\ self.outpath # ""
                           /\ fs.attic
                           /\ self.nrFormatted \in fs.html
                        THEN @ \cup {<<self.nrFormatted, self.version>>}
                        ELSE @]]_vars

\* archive, called first on a record whose HTML file and attic exist.
C10_Witness ==
    /\ lastOp = "archive"
    /\ ops = 2
    /\ fs.attic
    /\ fs.atticFiles = {<<<<"0", "0", "4", "2">>, <<"1", ".", "2">>>>}

(***************************************************************************)
(* What the two lists of diagnostics are expected to hold.                 *)
(***************************************************************************)
IsPrefix(p, q) == Len(p) <= Len(q) /\ SubSeq(q, 1, Len(p)) = p

\* The value descriptions the parser names in its diagnostics.
ParserDescriptions ==
    {"XEP-number of protoXEP", "XEP number", "last call", "date",
     "major version"}

\* The number of warnings the workflow code of an operation appends itself,
\* called on record rec with input in, having made the calls cs.
OwnWarnings(op, rec, in, cs) ==
    IF op = "defer"
    THEN IF rec.gittoplevel = "" THEN 1
         ELSE IF in.gitStatus = "error" THEN 2
         ELSE IF in.gitStatus = "dirty" THEN 1
         ELSE Count(in.commitError)
    ELSE IF op = "isGitClean"
    THEN Count(rec.gittoplevel # "" /\ in.gitStatus = "error")
    ELSE IF op = "gitCommit"
    THEN Count(rec.gittoplevel # "" /\ in.commitError)
    ELSE IF op = "revertInterim"
    THEN Count(rec.interim /\ (rec.gittoplevel = "" \/ ReadFailed(cs, in)))
    ELSE 0

\* The operation parsed some text.
Parsed(op, cs) ==
    \/ op \in {"__init__", "setDeferred", "defer"}
    \/ op = "revertInterim" /\ Reparsed(cs) # <<>>

(***************************************************************************)
(* C11. Across any sequence of operations on one record, parseErrors and   *)
(* buildErrors are append-only: every entry present before an operation is *)
(* still present at the same position after it. Only the parser appends to *)
(* parseErrors: an operation that parses nothing leaves the list as it     *)
(* was, and every entry names a value description of the parser. The       *)
(* parser never appends to buildErrors: an operation adds exactly the      *)
(* warnings of its own workflow code, none for the parses it runs, and no  *)
(* entry of buildErrors names a value description of the parser.           *)
(***************************************************************************)
C11_ErrorChannels ==
    [][lastOp' # lastOp \/ ops' # ops =>
          /\ IsPrefix(self.parseErrors, self'.parseErrors)
          /\ IsPrefix(self.buildErrors, self'.buildErrors)
          /\ ~Parsed(lastOp', calls') => self'.parseErrors = self.parseErrors
          /\ Len(self'.buildErrors)
                 = Len(self.buildErrors) + OwnWarnings(lastOp', self, input', calls')
          /\ \A i \in 1..Len(self'.parseErrors) :
                 self'.parseErrors[i][1] \in ParserDescriptions
          /\ \A i \in 1..Len(self'.buildErrors) :
                 self'.buildErrors[i][1] \notin ParserDescriptions]_vars

\* defer on a file with a bad date and no repository: the parse error of the
\* constructor is followed by the one of the re-parse, and the warning of
\* defer went to buildErrors.
C11_Witness ==
    /\ lastOp = "defer"
    /\ pc = "live"
    /\ Len(self.parseErrors) = 2
    /\ self.parseErrors[1][1] = "date"
    /\ Len(self.buildErrors) >= 1

(***************************************************************************)
(* What a record in sync with a document holds, field by field.            *)
(***************************************************************************)
FirstStatus(doc) ==
    LET es == ElementsOf(doc.body)
    IN  es[Least({k \in 1..Len(es) : es[k].name = "status"})].text

InSync(rec, doc) ==
    /\ rec.raw = doc
    /\ rec.status = FirstStatus(doc)
    /\ rec.interim = doc.interim
    /\ rec.version = doc.version
    /\ rec.date = IF DateParses(doc.date) THEN DateValue(doc.date) ELSE Now
    /\ doc.lastcall = <<>> => rec.lastcall = NoDate
    /\ IntParses(doc.number) =>
           /\ rec.nr = IntVal(IntOf(doc.number))
           /\ rec.nrFormatted = ZeroPadded(IntOf(doc.number))
    /\ ~MajorFails(doc) => rec.majorVersion = IntOf(Component(doc.version, 1))
    /\ IntParses(Component(doc.version, 2)) =>
           rec.minorVersion = IntVal(IntOf(Component(doc.version, 2)))

(***************************************************************************)
(* C12. revertInterim never writes the file on disk, and setDeferred       *)
(* always re-reads it: after setDeferred completes, rawText equals the     *)
(* content of the file on disk and every derived field is the parse of     *)
(* that content, even when the record held the text of an older revision   *)
(* put there by revertInterim. So for a file that is interim on disk,      *)
(* revertInterim followed by setDeferred leaves isInterim true again.      *)
(***************************************************************************)
C12_DeferredReadsDisk ==
    [][/\ lastOp' = "revertInterim" => disk' = disk
       /\ (lastOp' = "setDeferred" /\ exc'.type = "none") =>
              InSync(self', disk')
       /\ (lastOp = "revertInterim" /\ lastOp' = "setDeferred" /\ disk.interim) =>
              self'.interim]_vars

\* setDeferred as the third operation on an interim file whose date parses:
\* the one parse error the record holds was left by revertInterim, which
\* read an older revision with a bad date, raised nothing and warned of
\* nothing, so that it ended on a revision that is not interim.
C12_Witness ==
    /\ lastOp = "setDeferred"
    /\ pc = "live"
    /\ ops = 3
    /\ disk.interim
    /\ DateParses(disk.date)
    /\ self.interim
    /\ self.raw = disk
    /\ self.status = Deferred
    /\ Len(self.parseErrors) = 1
    /\ self.buildErrors = <<>>

====
